---- MODULE Spec2Model ----
(***************************************************************************)
(* A model of the AI image generator session (src/src/App.tsx) and of its  *)
(* file-name sanitizer (src/src/utils/file.ts).                            *)
(*                                                                         *)
(* Text that the code inspects character by character (the prompt, the     *)
(* data URI of the generated image, base64 payloads) is a sequence of      *)
(* one-character strings.  Text that the code only passes along (object    *)
(* names, signed URLs) is a TLA+ string.                                   *)
(***************************************************************************)
EXTENDS Naturals, Sequences, FiniteSets, TLC

VARIABLES
    \* React state of App (App.tsx:14-17)
    generatedImage, isLoading, images, prompt,
    \* calls of handleGenerateImage suspended at `await fetch` (App.tsx:72)
    pending,
    \* calls of handleGenerateImage suspended at `await response.json()`
    \* (App.tsx:98)
    reading,
    \* the prompt text carried by the most recent generation request (App.tsx:82)
    promptAtGenerate,
    \* TRUE once handleGenerateImage was entered while the Generate button
    \* was disabled (App.tsx:144), i.e. not through the button
    overlapped,
    \* upload calls in flight (App.tsx:116)
    uploadsPending,
    \* the one fetchImages invocation of the mount effect (App.tsx:23-64)
    refresh,
    \* number of setImages calls made so far (App.tsx:63)
    setImagesCalls,
    \* what the last handler step did: its input and how it ended
    last,
    \* harness of the sanitizer: an input and the results of applying
    \* sanitizeFileName to it once and twice
    name, calls, once, twice

vars == <<generatedImage, isLoading, images, prompt, pending, reading, promptAtGenerate,
          overlapped, uploadsPending, refresh, setImagesCalls, last,
          name, calls, once, twice>>

appVars == <<generatedImage, isLoading, images, prompt, pending, reading, promptAtGenerate,
             overlapped, uploadsPending, refresh, setImagesCalls, last>>

sanVars == <<name, calls, once, twice>>

Min(a, b) == IF a <= b THEN a ELSE b

(***************************************************************************)
(* Characters                                                              *)
(***************************************************************************)
LowerSeq == <<"a","b","c","d","e","f","g","h","i","j","k","l","m",
              "n","o","p","q","r","s","t","u","v","w","x","y","z">>

UpperSeq == <<"A","B","C","D","E","F","G","H","I","J","K","L","M",
              "N","O","P","Q","R","S","T","U","V","W","X","Y","Z">>

DigitSeq == <<"0","1","2","3","4","5","6","7","8","9">>

Range(s) == {s[i] : i \in 1..Len(s)}

Lower == Range(LowerSeq)
Upper == Range(UpperSeq)
Digit == Range(DigitSeq)

\* the class [a-z0-9] under the i flag
IsAlnum(c) == c \in Lower \cup Upper \cup Digit

\* String.prototype.toLowerCase on one character
ToLowerChar(c) ==
    IF c \in Upper
    THEN LowerSeq[CHOOSE i \in 1..Len(UpperSeq) : UpperSeq[i] = c]
    ELSE c

(***************************************************************************)
(* sanitizeFileName (utils/file.ts)                                        *)
(***************************************************************************)
\* .slice(0, 50)
MaxKeyLen == 50

\* .replace(/[^a-z0-9]/gi, '_')
ReplaceNonAlnum(s) == [i \in 1..Len(s) |-> IF IsAlnum(s[i]) THEN s[i] ELSE "_"]

\* .replace(/_+/g, '_'): every run of underscores becomes one underscore
RECURSIVE CollapseUnderscores(_)
CollapseUnderscores(s) ==
    IF Len(s) <= 1 THEN s
    ELSE IF s[1] = "_" /\ s[2] = "_" THEN CollapseUnderscores(Tail(s))
    ELSE <<s[1]>> \o CollapseUnderscores(Tail(s))

\* .replace(/^_|_$/g, ''): an underscore at the start and one at the end go
StripEnds(s) ==
    LET lead  == IF Len(s) >= 1 /\ s[1] = "_" THEN 1 ELSE 0
        trail == IF Len(s) > lead /\ s[Len(s)] = "_" THEN 1 ELSE 0
    IN  SubSeq(s, 1 + lead, Len(s) - trail)

\* .toLowerCase()
ToLowerCase(s) == [i \in 1..Len(s) |-> ToLowerChar(s[i])]

\* .slice(0, n)
SliceFromStart(s, n) == SubSeq(s, 1, Min(Len(s), n))

sanitizeFileName(s) ==
    SliceFromStart(ToLowerCase(StripEnds(CollapseUnderscores(ReplaceNonAlnum(s)))),
                   MaxKeyLen)

\* ^[a-z0-9]+(_[a-z0-9]+)*$
MatchesKeyPattern(s) ==
    /\ Len(s) >= 1
    /\ \A i \in 1..Len(s) : s[i] \in Lower \cup Digit \cup {"_"}
    /\ s[1] # "_"
    /\ s[Len(s)] # "_"
    /\ \A i \in 1..(Len(s) - 1) : ~(s[i] = "_" /\ s[i + 1] = "_")

(***************************************************************************)
(* The data URI of the generated image and its decoding (App.tsx:100,      *)
(* 111-114)                                                                *)
(***************************************************************************)
\* "data:image/png;base64,"
DataUriPrefix == <<"d","a","t","a",":","i","m","a","g","e","/","p","n","g",";",
                   "b","a","s","e","6","4",",">>

\* `${undefined}`
UndefinedText == <<"u","n","d","e","f","i","n","e","d">>

\* \w
IsWordChar(c) == IsAlnum(c) \/ c = "_"

StartsWithAt(s, at, pre) ==
    /\ Len(s) >= at - 1 + Len(pre)
    /\ \A i \in 1..Len(pre) : s[at - 1 + i] = pre[i]

\* the length of the longest run of \w characters of s that starts at `at`
RECURSIVE WordRun(_, _)
WordRun(s, at) ==
    IF at <= Len(s) /\ IsWordChar(s[at]) THEN 1 + WordRun(s, at + 1) ELSE 0

\* generatedImage.replace(/^data:image\/\w+;base64,/, "")
StripDataUri(s) ==
    LET head == SubSeq(DataUriPrefix, 1, 11)
        mark == SubSeq(DataUriPrefix, 15, 22)
        k    == WordRun(s, 12)
    IN  IF StartsWithAt(s, 1, head) /\ k >= 1 /\ StartsWithAt(s, 12 + k, mark)
        THEN SubSeq(s, 12 + k + Len(mark), Len(s))
        ELSE s

B64Chars == UpperSeq \o LowerSeq \o DigitSeq \o <<"+", "/">>

B64Value(c) == (CHOOSE i \in 1..Len(B64Chars) : B64Chars[i] = c) - 1

AsciiWhitespace == {" ", "\t", "\n", "\f", "\r"}

RECURSIVE Without(_, _)
Without(s, cs) ==
    IF s = <<>> THEN <<>>
    ELSE IF Head(s) \in cs THEN Without(Tail(s), cs)
    ELSE <<Head(s)>> \o Without(Tail(s), cs)

\* the padding step of atob: with a length divisible by 4, one or two
\* trailing "=" are dropped
DropPadding(s) ==
    IF Len(s) % 4 = 0 /\ Len(s) >= 1 /\ s[Len(s)] = "="
    THEN IF s[Len(s) - 1] = "="
         THEN SubSeq(s, 1, Len(s) - 2)
         ELSE SubSeq(s, 1, Len(s) - 1)
    ELSE s

\* whether atob accepts s (it throws InvalidCharacterError otherwise)
AtobAccepts(s) ==
    LET t == DropPadding(Without(s, AsciiWhitespace))
    IN  /\ Len(t) % 4 # 1
        /\ \A i \in 1..Len(t) : t[i] \in Range(B64Chars)

\* the char codes of the binary string that atob yields for the unpadded
\* base64 characters t
RECURSIVE DecodeSextets(_)
DecodeSextets(t) ==
    IF Len(t) >= 4 THEN
        LET n == B64Value(t[1]) * 262144 + B64Value(t[2]) * 4096
                 + B64Value(t[3]) * 64 + B64Value(t[4])
        IN  <<n \div 65536, (n \div 256) % 256, n % 256>>
            \o DecodeSextets(SubSeq(t, 5, Len(t)))
    ELSE IF Len(t) = 3 THEN
        LET n == (B64Value(t[1]) * 4096 + B64Value(t[2]) * 64 + B64Value(t[3])) \div 4
        IN  <<n \div 256, n % 256>>
    ELSE IF Len(t) = 2 THEN
        <<(B64Value(t[1]) * 64 + B64Value(t[2])) \div 16>>
    ELSE <<>>

Atob(s) == DecodeSextets(DropPadding(Without(s, AsciiWhitespace)))

\* Uint8Array.from(binaryString, (c) => c.charCodeAt(0))
ToUint8Array(codes) == [i \in 1..Len(codes) |-> codes[i] % 256]

(***************************************************************************)
(* Bounds and the inputs of the session                                    *)
(***************************************************************************)
\* calls of handleGenerateImage that have not ended, at once
MaxPending == 2

\* upload calls in flight at once
MaxUploads == 1

\* objects in the bucket listing
MaxListing == 2

\* what the user types into the prompt field
Prompts ==
    { <<>>,
      <<"A", " ", "f", "o", "x">> }

PlaceholderName == ".emptyFolderPlaceholder"

ObjectNames == {"a.png", "b.png", PlaceholderName}

\* bucket listings: object names are unique within a bucket
Listings ==
    { l \in UNION { [1..n -> ObjectNames] : n \in 0..MaxListing } :
        \A i, j \in 1..Len(l) : l[i] = l[j] => i = j }

\* base64 of the bytes 65, 66
PngPayload == <<"Q", "U", "I", "=">>

ValidArtifact == [base64 |-> PngPayload, seed |-> 1, finishReason |-> "SUCCESS"]

\* the parsed JSON bodies the generation API may send; a body with a `text`
\* field stands for one that is not JSON
GenerationBodies ==
    { [text |-> "<html>"],
      [message |-> "error"],
      [artifacts |-> <<>>],
      [artifacts |-> << [seed |-> 1, finishReason |-> "ERROR"] >>],
      [artifacts |-> << ValidArtifact >>] }

\* the responses fetch() may resolve with; the body is read later, by
\* response.json()
GenerationResponses ==
    { [ok |-> TRUE, status |-> 200], [ok |-> FALSE, status |-> 500] }

\* the URL the store signs for an object name
SignedUrlOf(n) == "https://store/sign/" \o n

\* what createSignedUrl may resolve to for name n: { data, error }
SignedUrlResponses(n) ==
    { [error |-> FALSE, hasData |-> TRUE,  signedUrl |-> SignedUrlOf(n)],
      [error |-> TRUE,  hasData |-> FALSE, signedUrl |-> ""],
      [error |-> FALSE, hasData |-> FALSE, signedUrl |-> ""] }

\* what list() may resolve to: { data, error }
ListResponses ==
    {[error |-> FALSE, hasData |-> TRUE, data |-> l] : l \in Listings}
    \cup { [error |-> TRUE,  hasData |-> FALSE, data |-> <<>>],
           [error |-> FALSE, hasData |-> FALSE, data |-> <<>>] }

\* a promise of the fan-out that has not settled
Unsettled == "<pending>"

\* !x for a string-or-null x: null and "" are falsy; null is modelled as <<>>
Null == <<>>
Falsy(x) == x = <<>>

Event(op, outcome, info) == [op |-> op, outcome |-> outcome, info |-> info]

(***************************************************************************)
(* The session: App()                                                      *)
(***************************************************************************)
\* useState initial values, and the mount effect's fetchImages up to its
\* first await (the list request is in flight)
InitApp ==
    /\ generatedImage = Null
    /\ isLoading = FALSE
    /\ images = <<>>
    /\ prompt = <<>>
    /\ pending = 0
    /\ reading = 0
    /\ promptAtGenerate = <<>>
    /\ overlapped = FALSE
    /\ uploadsPending = 0
    /\ refresh = [phase |-> "listing", listing |-> <<>>, results |-> <<>>]
    /\ setImagesCalls = 0
    /\ last = Event("mount", "returned", <<>>)

InitSanitizerIdle ==
    /\ name = <<>>
    /\ calls = 0
    /\ once = <<>>
    /\ twice = <<>>

Init == InitApp /\ InitSanitizerIdle

\* onChange={(e) => setPrompt(e.target.value)}
SetPrompt ==
    \E p \in Prompts :
        /\ p # prompt
        /\ prompt' = p
        /\ last' = Event("setPrompt", "returned", <<>>)
        /\ UNCHANGED <<generatedImage, isLoading, images, pending, reading, promptAtGenerate,
                       overlapped, uploadsPending, refresh, setImagesCalls>>

(***************************************************************************)
(* fetchImages                                                             *)
(***************************************************************************)
\* the value of one map callback that returns without awaiting, and
\* Unsettled for one that awaits createSignedUrl
CallbackStart(n) == IF n = PlaceholderName THEN "" ELSE Unsettled

\* the value a map callback returns once createSignedUrl has resolved
CallbackEnd(r) ==
    IF r.error THEN ""
    ELSE IF r.hasData THEN r.signedUrl
    ELSE ""

AllSettled(results) == \A i \in 1..Len(results) : results[i] # Unsettled

\* Promise.all keeps each promise's value at the promise's index
StoreResultByArrival(results, i, v) ==
    LET k == CHOOSE j \in 1..Len(results) :
                 /\ results[j] = Unsettled
                 /\ \A h \in 1..(j - 1) : results[h] # Unsettled
    IN  [results EXCEPT ![k] = v]

StoreResult(results, i, v) == [results EXCEPT ![i] = v]

\* setImages(imageUrls) runs once Promise.all has resolved, not before
ImagesAfterEachSettle(imgs, results) ==
    [i \in 1..Len(results) |-> IF results[i] = Unsettled THEN "" ELSE results[i]]

ImagesAfterSettle(imgs, results) == IF AllSettled(results) THEN results ELSE imgs

\* the list() promise resolves: fetchImages runs to its next await, or to
\* its end when no callback awaits
ListResponse ==
    \E r \in ListResponses :
        /\ refresh.phase = "listing"
        /\ IF r.error \/ ~r.hasData
           THEN /\ refresh' = [refresh EXCEPT !.phase = "returned"]
                /\ last' = Event("list/response", "returned",
                                 IF r.error THEN "logged: Error fetching images" ELSE "no data")
                /\ UNCHANGED <<images, setImagesCalls>>
           ELSE LET started == [i \in 1..Len(r.data) |-> CallbackStart(r.data[i])]
                IN  /\ refresh' = [phase   |-> IF AllSettled(started) THEN "done" ELSE "resolving",
                                   listing |-> r.data,
                                   results |-> started]
                    /\ images' = ImagesAfterSettle(images, started)
                    /\ setImagesCalls' = IF AllSettled(started) THEN setImagesCalls + 1
                                         ELSE setImagesCalls
                    /\ last' = Event("list/response",
                                     IF AllSettled(started) THEN "returned" ELSE "awaiting",
                                     "listed")
        /\ UNCHANGED <<generatedImage, isLoading, prompt, pending, reading, promptAtGenerate,
                       overlapped, uploadsPending>>

\* one createSignedUrl promise resolves, in any order; with the last one
\* Promise.all resolves and fetchImages runs to its end
SignedUrlResponse ==
    \E i \in 1..Len(refresh.results) :
      \E r \in SignedUrlResponses(refresh.listing[i]) :
        /\ refresh.phase = "resolving"
        /\ refresh.results[i] = Unsettled
        /\ LET settled == StoreResult(refresh.results, i, CallbackEnd(r))
           IN  /\ refresh' = [refresh EXCEPT !.results = settled,
                                             !.phase = IF AllSettled(settled) THEN "done"
                                                       ELSE "resolving"]
               /\ images' = ImagesAfterSettle(images, settled)
               /\ setImagesCalls' = IF AllSettled(settled) THEN setImagesCalls + 1
                                    ELSE setImagesCalls
               /\ last' = Event("createSignedUrl/response",
                                IF r.error THEN "logged: Error creating signed URL"
                                ELSE "returned",
                                [index |-> i, response |-> r])
        /\ UNCHANGED <<generatedImage, isLoading, prompt, pending, reading, promptAtGenerate,
                       overlapped, uploadsPending>>

(***************************************************************************)
(* handleGenerateImage                                                     *)
(***************************************************************************)
\* disabled={isLoading} on the Generate button
GenerateButtonDisabled == isLoading

\* setIsLoading(true) on entry
LoadingNotSetOnEntry == isLoading

LoadingOnEntry == TRUE

\* the handler up to its first await: the request is sent.  The handler
\* itself has no guard; `overlapped` records an entry that the disabled
\* button would not have allowed
HandleGenerateImage ==
    /\ pending + reading < MaxPending
    /\ isLoading' = LoadingOnEntry
    /\ pending' = pending + 1
    /\ promptAtGenerate' = prompt
    /\ overlapped' = (overlapped \/ GenerateButtonDisabled)
    /\ last' = Event("handleGenerateImage", "awaiting", <<>>)
    /\ UNCHANGED <<generatedImage, images, prompt, reading, uploadsPending, refresh,
                   setImagesCalls>>

\* fetch() rejects (no response): the handler's promise rejects at line 72
GenerateFetchRejects ==
    /\ pending > 0
    /\ pending' = pending - 1
    /\ last' = Event("handleGenerateImage/rejected", "threw: Failed to fetch", <<>>)
    /\ UNCHANGED <<generatedImage, isLoading, images, prompt, reading, promptAtGenerate,
                   overlapped, uploadsPending, refresh, setImagesCalls>>

\* if (!response.ok) { ...; throw ... }: whether the handler goes on to
\* await response.json()
ReadsBodyWhateverStatus(r) == TRUE

ReadsBody(r) == r.ok

\* fetch() resolves with a response: the handler throws on a non-success
\* status, and otherwise runs to its second await, response.json()
GenerateResponse ==
    \E r \in GenerationResponses :
        /\ pending > 0
        /\ pending' = pending - 1
        /\ IF ReadsBody(r)
           THEN /\ reading' = reading + 1
                /\ last' = Event("handleGenerateImage/response", "awaiting", r)
                /\ UNCHANGED isLoading
           ELSE /\ isLoading' = FALSE
                /\ last' = Event("handleGenerateImage/response",
                                 "threw: Non-200 response", r)
                /\ UNCHANGED reading
        /\ UNCHANGED <<generatedImage, images, prompt, promptAtGenerate, overlapped,
                       uploadsPending, refresh, setImagesCalls>>

IsJson(body) == "text" \notin DOMAIN body

\* responseJSON.artifacts[0].base64 evaluates without a TypeError
HasFirstArtifact(body) ==
    /\ "artifacts" \in DOMAIN body
    /\ Len(body.artifacts) >= 1

\* `data:image/png;base64,${base64Image}`
DataUriOf(artifact) ==
    DataUriPrefix \o (IF "base64" \in DOMAIN artifact THEN artifact.base64
                      ELSE UndefinedText)

\* how the handler ends once the body has been read
BodyOutcome(body) ==
    IF ~IsJson(body) THEN "threw: SyntaxError"
    ELSE IF ~HasFirstArtifact(body) THEN "threw: TypeError"
    ELSE "returned"

\* the generated image after the handler has dealt with the body
ImageAfterBody(img, body) ==
    IF BodyOutcome(body) = "returned" THEN DataUriOf(body.artifacts[1]) ELSE img

\* the busy flag after the handler has dealt with the body
LoadingAfterBody(busy, body) ==
    IF BodyOutcome(body) = "returned" THEN FALSE ELSE busy

\* response.json() settles: the handler runs to its end
GenerateBody ==
    \E body \in GenerationBodies :
        /\ reading > 0
        /\ reading' = reading - 1
        /\ generatedImage' = ImageAfterBody(generatedImage, body)
        /\ isLoading' = LoadingAfterBody(isLoading, body)
        /\ last' = Event("handleGenerateImage/body", BodyOutcome(body), body)
        /\ UNCHANGED <<images, prompt, pending, promptAtGenerate, overlapped,
                       uploadsPending, refresh, setImagesCalls>>

(***************************************************************************)
(* handleSaveImage                                                         *)
(***************************************************************************)
\* sanitizeFileName(prompt)
FileNameFromGeneration == sanitizeFileName(promptAtGenerate)

FileName == sanitizeFileName(prompt)

\* the arguments of .upload(fileName, binaryData.buffer, { contentType })
UploadCall ==
    [key         |-> FileName,
     payload     |-> ToUint8Array(Atob(StripDataUri(generatedImage))),
     contentType |-> "image/png"]

\* the handler up to its first await, or to its end when it returns or
\* throws before
HandleSaveImage ==
    /\ IF Falsy(generatedImage)
       THEN /\ last' = Event("handleSaveImage", "returned", "no image")
            /\ UNCHANGED uploadsPending
       ELSE IF ~AtobAccepts(StripDataUri(generatedImage))
       THEN /\ last' = Event("handleSaveImage", "threw", "InvalidCharacterError")
            /\ UNCHANGED uploadsPending
       ELSE /\ uploadsPending < MaxUploads
            /\ uploadsPending' = uploadsPending + 1
            /\ last' = Event("handleSaveImage", "awaiting", UploadCall)
    /\ UNCHANGED <<generatedImage, isLoading, images, prompt, pending, reading, promptAtGenerate,
                   overlapped, refresh, setImagesCalls>>

\* the upload promise resolves with { error }: the handler logs and returns
UploadResponse ==
    \E error \in BOOLEAN :
        /\ uploadsPending > 0
        /\ uploadsPending' = uploadsPending - 1
        /\ last' = Event("handleSaveImage/response", "returned",
                         IF error THEN "logged: Error uploading image"
                         ELSE "logged: Image uploaded successfully")
        /\ UNCHANGED <<generatedImage, isLoading, images, prompt, pending, reading,
                       promptAtGenerate, overlapped, refresh, setImagesCalls>>

(***************************************************************************)
(* The session's specification                                             *)
(***************************************************************************)
Next ==
    \/ SetPrompt /\ UNCHANGED sanVars
    \/ ListResponse /\ UNCHANGED sanVars
    \/ SignedUrlResponse /\ UNCHANGED sanVars
    \/ HandleGenerateImage /\ UNCHANGED sanVars
    \/ GenerateFetchRejects /\ UNCHANGED sanVars
    \/ GenerateResponse /\ UNCHANGED sanVars
    \/ GenerateBody /\ UNCHANGED sanVars
    \/ HandleSaveImage /\ UNCHANGED sanVars
    \/ UploadResponse /\ UNCHANGED sanVars

Spec == Init /\ [][Next]_vars

(***************************************************************************)
(* The sanitizer on its own: inputs around the 50-character cut            *)
(***************************************************************************)
\* the longest text put before and after the run of letters of an input
MaxAffix == 2

SanitizerChars == {"a", "Z", "7", "_", "-"}

Affixes == UNION { [1..n -> SanitizerChars] : n \in 0..MaxAffix }

RunLengths == {0, 1, 47, 48, 49, 50}

LetterRun(n) == [i \in 1..n |-> "x"]

SanitizerInputs ==
    { h \o LetterRun(n) \o t : h \in Affixes, t \in Affixes, n \in RunLengths }

InitSanitize ==
    /\ InitApp
    /\ name \in SanitizerInputs
    /\ calls = 0
    /\ once = <<>>
    /\ twice = <<>>

\* sanitizeFileName(name)
SanitizeName ==
    /\ calls = 0
    /\ once' = sanitizeFileName(name)
    /\ calls' = 1
    /\ UNCHANGED <<name, twice>>

\* sanitizeFileName(sanitizeFileName(name))
SanitizeAgain ==
    /\ calls = 1
    /\ twice' = sanitizeFileName(once)
    /\ calls' = 2
    /\ UNCHANGED <<name, once>>

NextSanitize ==
    \/ SanitizeName /\ UNCHANGED appVars
    \/ SanitizeAgain /\ UNCHANGED appVars

SpecSanitize == InitSanitize /\ [][NextSanitize]_vars

(***************************************************************************)
(* Properties                                                              *)
(***************************************************************************)
Placeholders(l) == {i \in 1..Len(l) : l[i] = PlaceholderName}

\* C1: the gallery is assembled in listing order with failures isolated:
\* every settled entry is derived from the name at its own index (its signed
\* URL, or ""), the entry of a resolution that reported an error is "" and
\* that of one that succeeded is the name's signed URL whatever happened to
\* the other names, a settled entry never changes, and the gallery that is
\* written has one entry per listed name, the settled results in order.
C1_SettledEntriesInPlace ==
    /\ \A i \in 1..Len(refresh.results) :
           refresh.results[i] \in {Unsettled, "", SignedUrlOf(refresh.listing[i])}
    /\ last.op = "createSignedUrl/response" =>
           LET i == last.info.index
               r == last.info.response
           IN  /\ r.error => refresh.results[i] = ""
               /\ (~r.error /\ r.hasData) =>
                      refresh.results[i] = SignedUrlOf(refresh.listing[i])
    /\ refresh.phase = "done" =>
           /\ Len(images) = Len(refresh.listing)
           /\ images = refresh.results
           /\ AllSettled(images)

C1_SettledEntriesStay ==
    \A i \in 1..Len(refresh.results) :
        refresh.results[i] # Unsettled =>
            /\ refresh'.listing = refresh.listing
            /\ refresh'.results[i] = refresh.results[i]

\* C1: gallery assembly is order-preserving and failure-isolating: the
\* entries are always in place as described above, and stay once settled.
C1_GalleryOrderAndIsolation ==
    []C1_SettledEntriesInPlace /\ [][C1_SettledEntriesStay]_vars

\* C1 witness: of two listed objects the second resolved first and
\* succeeded, the first resolved last and failed; the gallery holds "" and
\* then the second object's URL.
C1_Witness ==
    /\ refresh.phase = "done"
    /\ Len(refresh.listing) = 2
    /\ PlaceholderName \notin Range(refresh.listing)
    /\ last.op = "createSignedUrl/response"
    /\ last.info.index = 1
    /\ last.info.response.error
    /\ images = <<"", SignedUrlOf(refresh.listing[2])>>

\* C2: the gallery written by a refresh has one entry less than the listing
\* for each placeholder name in the listing.
C2_PlaceholderExcluded ==
    refresh.phase = "done" =>
        Len(images) = Len(refresh.listing) - Cardinality(Placeholders(refresh.listing))

\* C3: whenever a call of handleGenerateImage has ended, on a non-success
\* status, on a body that was read or could not be, or on a rejected
\* request, the busy flag is clear.
C3_BusyClearedWhenRequestEnds ==
    (/\ last.op \in {"handleGenerateImage/response", "handleGenerateImage/body",
                     "handleGenerateImage/rejected"}
     /\ last.outcome # "awaiting")
    => ~isLoading

\* C4: when a generation request ends with a non-success status, the handler
\* throws the Non-200 error there and then: it does not go on to read the
\* body, and the generated image stays what it was.
C4_NonSuccessStep ==
    (/\ pending' = pending - 1
     /\ last'.op = "handleGenerateImage/response"
     /\ ~last'.info.ok)
    => /\ last'.outcome = "threw: Non-200 response"
       /\ reading' = reading
       /\ generatedImage' = generatedImage

\* C4: every step that handles a non-success status throws and leaves the
\* generated image alone.
C4_NonSuccessIsAnError == [][C4_NonSuccessStep]_vars

\* C4 witness: a non-success response has been handled by a throw; no call
\* is left that could still apply a body, and there is no generated image.
C4_Witness ==
    /\ last.op = "handleGenerateImage/response"
    /\ ~last.info.ok
    /\ last.outcome = "threw: Non-200 response"
    /\ pending = 0
    /\ reading = 0
    /\ generatedImage = Null
    /\ ~isLoading

\* C5: the sanitized name is empty or matches ^[a-z0-9]+(_[a-z0-9]+)*$, and
\* has at most 50 characters.
C5_KeyWellFormed ==
    calls >= 1 =>
        /\ Len(once) <= MaxKeyLen
        /\ once = <<>> \/ MatchesKeyPattern(once)

\* C6: sanitizing a sanitized name gives the same name.
C6_Idempotent == calls = 2 => twice = once

\* C7: the upload call issued by handleSaveImage has the key
\* sanitizeFileName(prompt) for the prompt at that moment, the content type
\* image/png, and the bytes decoded from the current generated image; one
\* call is issued per save.
C7_UploadStep ==
    uploadsPending' # uploadsPending /\ last'.op = "handleSaveImage" =>
        /\ uploadsPending' = uploadsPending + 1
        /\ last'.info.key = sanitizeFileName(prompt)
        /\ last'.info.contentType = "image/png"
        /\ last'.info.payload = ToUint8Array(Atob(StripDataUri(generatedImage)))
        /\ DataUriPrefix \o PngPayload = generatedImage => last'.info.payload = <<65, 66>>

\* C7: every upload call carries the key of the prompt current at save
\* time, image/png, and the decoded bytes of the current image.
C7_KeyFromPromptAtSave == [][C7_UploadStep]_vars

\* C7 witness: the image was generated for the empty prompt, the prompt was
\* then edited to "A fox", and the save issued an upload under a_fox.
C7_Witness ==
    /\ last.op = "handleSaveImage"
    /\ last.outcome = "awaiting"
    /\ promptAtGenerate = <<>>
    /\ prompt = <<"A", " ", "f", "o", "x">>
    /\ last.info.key = <<"a", "_", "f", "o", "x">>
    /\ last.info.payload = <<65, 66>>

\* C8: no step of handleSaveImage ends by throwing.
C8_SaveNeverThrows ==
    last.op \in {"handleSaveImage", "handleSaveImage/response"} =>
        last.outcome # "threw"

\* C9: the gallery is written at most once by fetchImages, and only in the
\* step in which the last signed-URL resolution settles: until then it is
\* the initial empty gallery, afterwards the complete list of results; a
\* listing that fails writes nothing and starts no signed-URL request.
C9_GalleryWholeOrUntouched ==
    /\ setImagesCalls <= 1
    /\ refresh.phase # "done" => images = <<>> /\ setImagesCalls = 0
    /\ refresh.phase = "done" =>
           /\ AllSettled(refresh.results)
           /\ images = refresh.results
           /\ Len(images) = Len(refresh.listing)
    /\ refresh.phase = "returned" => refresh.results = <<>>

C9_WriteStep ==
    (images' # images \/ setImagesCalls' # setImagesCalls) =>
        /\ refresh.phase # "done"
        /\ refresh'.phase = "done"
        /\ AllSettled(refresh'.results)
        /\ setImagesCalls' = setImagesCalls + 1

\* C9: a gallery refresh applies its result atomically: the gallery is
\* whole or untouched in every state, and is written in one step only.
C9_AtomicRefresh == []C9_GalleryWholeOrUntouched /\ [][C9_WriteStep]_vars

\* C9 witness: the last of two resolutions has just settled and the gallery
\* was written, while a generation request and an upload are in flight.
C9_Witness ==
    /\ refresh.phase = "done"
    /\ last.op = "createSignedUrl/response"
    /\ Len(images) = 2
    /\ setImagesCalls = 1
    /\ pending > 0
    /\ uploadsPending > 0

\* C10 as stated: the busy flag is set whenever a call of
\* handleGenerateImage has not ended (its request or the reading of its
\* response is in flight), overlapping calls included.
C10_BusyWhileInFlight == pending + reading > 0 => isLoading

\* C10 amended: the busy flag is set whenever a call of handleGenerateImage
\* has not ended, as long as handleGenerateImage was only ever entered with
\* the Generate button enabled.
C10_BusyWhileInFlightViaButton ==
    (~overlapped /\ pending + reading > 0) => isLoading

\* C10 witness: a second call, made through the enabled button after the
\* first one produced an image, has its response and awaits the body.
C10_Witness ==
    /\ ~overlapped
    /\ pending = 0
    /\ reading = 1
    /\ isLoading
    /\ generatedImage # Null

====
